---------------------------- MODULE Spec2Model ----------------------------
(***************************************************************************)
(* Model of src/claude-agent-runner.mjs: the task-execution orchestrator.  *)
(* The script validates its configuration, runs the fixed task list one    *)
(* task at a time through the agent's message stream, records the files    *)
(* the agent's Write/Edit hooks observe, signs and sends progress          *)
(* notifications without awaiting their delivery, runs the build, and      *)
(* publishes to the remote repository.  The module also follows the task   *)
(* store of the application the repository holds (src/stores/taskStore.ts  *)
(* over the IndexedDB layer of src/lib/storage/db.ts).                     *)
(*                                                                         *)
(* JavaScript values are written as their literals: Undefined, Null, the   *)
(* empty string "''", a string as "'text'".  A text built by a template    *)
(* literal is a sequence of parts; the file escapes every placeholder      *)
(* (a backslash before the dollar sign), so a placeholder is the literal   *)
(* text of the placeholder and never the value.                            *)
(***************************************************************************)
EXTENDS Naturals, Sequences, FiniteSets

\* ------------------------------------------------------------ bounds
\* Longest task list drawn at startup (the file embeds three tasks).
MaxTasks == 2
\* Side-channel messages (assistant, tool_use, ...) the agent emits per task.
MaxMessages == 1
\* Deliveries kept in flight at once; an older one has settled by then.
MaxInflight == 1
\* Calls of the notifier made in a row when it is followed alone with every
\* delivery kept (DeliverySpec).
MaxCalls == 2
\* Record ids generateId can hand out to the tasks of the store, and to each
\* of its lists and tags.
MaxRecords == 2
MaxLabels == 1

\* ------------------------------------------------------------ values
Undefined == "undefined"
Null == "null"
EmptyString == "''"

TaskIds == {"TASK-002", "TASK-004"}
Paths == {"'src/a.tsx'", "'verify.mjs'"}
Payloads == {Undefined, Null, EmptyString, "'done'"}
FailureSubtypes == {"error_max_turns", "error_during_execution"}
SideTypes == {"assistant", "tool_use", "tool_result", "system"}
ToolNames == {"Write", "Edit", "Bash"}
PathInputs == {Undefined, EmptyString} \cup Paths
RequiredEnv == {"ANTHROPIC_API_KEY", "WEBHOOK_URL", "WEBHOOK_SECRET", "PROJECT_ID"}
Outcomes == {"ok", "httpError", "networkError", "timeout"}
ProjectId == "'project'"
WebhookSecret == "'secret'"
\* new Date().toISOString() at the call.
Timestamp == "'2025-01-01T00:00:00.000Z'"

\* The tasks array: any ordered list of at most MaxTasks ids, a repeated id
\* included.  The ids are opaque to the script, so of the lists that differ
\* only by renaming the ids the one starting with FirstTaskId is drawn.
FirstTaskId == "TASK-002"
TaskLists ==
  {t \in UNION {[1..n -> TaskIds] : n \in 0..MaxTasks} : Len(t) > 0 => t[1] = FirstTaskId}

\* JavaScript truthiness of the values above.
Truthy(v) == v \notin {Undefined, Null, EmptyString}

\* a || b
Or(a, b) == IF Truthy(a) THEN a ELSE b

\* array.includes(x)
Includes(arr, x) == \E k \in 1..Len(arr) : arr[k] = x

\* ------------------------------------------------------------ text
\* Where the script takes a text apart (a line of git status, a file name) the
\* text is the sequence of its characters.
Space == " "

SrcATsx == <<"s", "r", "c", "/", "a", ".", "t", "s", "x">>
VerifyMjs == <<"v", "e", "r", "i", "f", "y", ".", "m", "j", "s">>
GitIgnore == <<".", "g", "i", "t", "i", "g", "n", "o", "r", "e">>

\* The characters of a path the hooks recorded.
Chars(path) == IF path = "'verify.mjs'" THEN VerifyMjs ELSE SrcATsx

\* Lines 780-785: tempFiles.
tempFiles ==
  << <<"c", "l", "a", "u", "d", "e", "-", "a", "g", "e", "n", "t", "-",
       "r", "u", "n", "n", "e", "r", ".", "m", "j", "s">>,
     <<"r", "e", "a", "d", "-", "s", "t", "d", "o", "u", "t", ".", "m", "j", "s">>,
     <<"r", "e", "a", "d", "-", "s", "t", "d", "e", "r", "r", ".", "m", "j", "s">>,
     VerifyMjs >>

\* text.includes(part)
Contains(text, part) ==
  \E i \in 0..(Len(text) - Len(part)) : SubSeq(text, i + 1, i + Len(part)) = part

\* text.trim()
RECURSIVE TrimStart(_)
TrimStart(text) ==
  IF text # <<>> /\ Head(text) = Space THEN TrimStart(Tail(text)) ELSE text

RECURSIVE TrimEnd(_)
TrimEnd(text) ==
  IF text # <<>> /\ text[Len(text)] = Space
    THEN TrimEnd(SubSeq(text, 1, Len(text) - 1)) ELSE text

Trim(text) == TrimEnd(TrimStart(text))

\* parts.join(separator)
RECURSIVE Join(_, _)
Join(parts, separator) ==
  IF parts = <<>> THEN <<>>
  ELSE IF Len(parts) = 1 THEN parts[1]
  ELSE parts[1] \o <<separator>> \o Join(Tail(parts), separator)

\* The length of the run of the letter s that starts at position k of the text.
RECURSIVE RunOfS(_, _)
RunOfS(text, k) ==
  IF k <= Len(text) /\ text[k] = "s" THEN 1 + RunOfS(text, k + 1) ELSE 0

\* Line 891: /^.{1,2}s+(.+)$/ with the leading .{1,2} taking n characters: what
\* (.+) captures, or <<>> when the text does not match that way.  The pattern
\* has s+ where a whitespace class was meant: it asks for the letter s.  s+
\* takes the whole run and gives one s back when nothing else is left for (.+).
CaptureAfter(text, n) ==
  IF Len(text) <= n \/ RunOfS(text, n + 1) = 0 THEN <<>>
  ELSE IF n + RunOfS(text, n + 1) < Len(text)
         THEN SubSeq(text, n + RunOfS(text, n + 1) + 1, Len(text))
  ELSE IF RunOfS(text, n + 1) >= 2 THEN <<"s">>
  ELSE <<>>

\* trimmed.match(/^.{1,2}s+(.+)$/)[1]: the greedy .{1,2} tries two characters
\* first and one after.
StatusPrefixMatch(text) ==
  IF CaptureAfter(text, 2) # <<>> THEN CaptureAfter(text, 2) ELSE CaptureAfter(text, 1)

\* Line 896: trimmed.split(/s+/): the parts between the runs of the letter s.
RECURSIVE SplitOnS(_)
SplitOnS(text) ==
  IF \A k \in 1..Len(text) : text[k] # "s" THEN <<text>>
  ELSE LET k == CHOOSE i \in 1..Len(text) :
                  text[i] = "s" /\ \A j \in 1..(i - 1) : text[j] # "s"
       IN <<SubSeq(text, 1, k - 1)>>
          \o SplitOnS(SubSeq(text, k + RunOfS(text, k), Len(text)))

\* Lines 884-901: the callback of statusLines.map: the file name taken from one
\* line of git status --porcelain.
ParseStatusLine(line) ==
  LET trimmed == Trim(line)
  IN IF StatusPrefixMatch(trimmed) # <<>> THEN Trim(StatusPrefixMatch(trimmed))
     ELSE IF Len(SplitOnS(trimmed)) > 1
            THEN Trim(Join(Tail(SplitOnS(trimmed)), Space))
     ELSE trimmed

\* Lines 882-901: actualFilesList from the lines of the re-queried status.
ParseStatus(lines) ==
  SelectSeq([k \in 1..Len(lines) |-> ParseStatusLine(lines[k])],
            LAMBDA name : name # <<>>)

VARIABLES
  env,              \* process.env: the names that are set
  tasks,            \* the tasks array (ids; a description is keyed by its id)
  pc,               \* where the script is
  idx,              \* index of the loop's current task
  taskStatuses,     \* taskStatuses[k].status
  completedTaskIds, \* completedTaskIds
  filesChanged,     \* filesChanged
  finalResult,      \* finalResult of the current task
  messageCount,     \* messageCount of the current task
  fatal,            \* the error that ended the run (NoError while none)
  exitCode,         \* the process's exit code (Undefined while it runs)
  inflight,         \* statuses of the notifications whose fetch is pending
  lastNotification, \* payload of the latest sendProgressUpdate call
  suspended,        \* the script is awaiting a delivery
  commit,           \* the commit block's statusLines, actualFilesChanged, actualFilesList
  log,              \* the lines written to the console that quote a remote URL
  store,            \* the task store of src/stores/taskStore.ts and its database
  hist              \* what the environment did (observations for the checks)

vars == <<env, tasks, pc, idx, taskStatuses, completedTaskIds, filesChanged,
          finalResult, messageCount, fatal, exitCode, inflight,
          lastNotification, suspended, commit, log, store, hist>>

NoError == [name |-> "none", message |-> <<>>, status |-> Undefined,
            statusCode |-> Undefined, type |-> Undefined, cause |-> Undefined]

NoNotification == [status |-> "none", currentTask |-> <<>>, completedTasks |-> <<>>,
                   filesChanged |-> <<>>, buildStatus |-> Undefined, error |-> Undefined]

\* What one task's drive has seen so far (escaped: a hook's promise has
\* rejected during the drive in progress).
NoSdkError == [status |-> Undefined, statusCode |-> Undefined, type |-> Undefined,
               cause |-> Undefined]

NoTaskHist == [session |-> "none", gotSuccess |-> FALSE, payload |-> Undefined,
               resultsReduced |-> 0, afterSuccess |-> 0, ended |-> FALSE,
               fault |-> "none", failedSubtype |-> Undefined, errorSeen |-> FALSE,
               sdkError |-> NoSdkError, escaped |-> FALSE]

\* What the run has seen so far: the invocations, the paths observed, the
\* build's outcome, the version-control commands the publication ran and how
\* it ended, whether the first git status reported changes, and the push
\* attempts (branch and outcome).
InitHist == [invoked |-> <<>>, active |-> 0, seen |-> <<>>, repeats |-> FALSE, failedAt |-> 0,
             task |-> NoTaskHist, build |-> "none", git |-> {}, publication |-> "none",
             changes |-> "unknown", pushes |-> <<>>]

\* Outside the commit block its locals do not exist.
NoCommit == [fromStatus |-> FALSE, statusLines |-> <<>>, actualFilesChanged |-> 0,
             actualFilesList |-> <<>>]

\* The store as create() builds it (taskStore.ts 88-98) over empty object
\* stores: tasks, lists and tags are the in-memory arrays, db the database.
\* A record id is the rank of its UUID in key order; a null id is written 0.
NoStore == [tasks |-> <<>>, lists |-> <<>>, tags |-> <<>>, settings |-> Null,
            selectedListId |-> 0, error |-> Null,
            db |-> [tasks |-> {}, lists |-> {}, tags |-> {}, settings |-> Null]]

Init ==
  /\ env \in {RequiredEnv \cup g : g \in SUBSET {"GITHUB_URL", "GITHUB_TOKEN"}}
             \cup {RequiredEnv \ {m} : m \in RequiredEnv}
  /\ tasks \in TaskLists
  /\ pc = "start"
  /\ idx = 1
  /\ taskStatuses = <<>>
  /\ completedTaskIds = <<>>
  /\ filesChanged = <<>>
  /\ finalResult = Null
  /\ messageCount = 0
  /\ fatal = NoError
  /\ exitCode = Undefined
  /\ inflight = <<>>
  /\ lastNotification = NoNotification
  /\ suspended = FALSE
  /\ commit = NoCommit
  /\ log = {}
  /\ store = NoStore
  /\ hist = InitHist


\* ------------------------------------------------------------ notifier
\* The payload object sendProgressUpdate builds.
Payload(status, currentTask, completedTasks, files, buildStatus, error) ==
  [status |-> status, currentTask |-> currentTask, completedTasks |-> completedTasks,
   filesChanged |-> files, buildStatus |-> buildStatus, error |-> error]

\* The JSON text of a value.
Json(v) == <<"json", v>>

\* The text of a member that may be undefined (buildStatus and error; the
\* other parameters have defaults and status is always given).
JsonOrUndefined(v) == IF v = Undefined THEN Undefined ELSE Json(v)

\* The members of the payload object, in the order the literal lists them, each
\* with the text JSON.stringify gives its value.
PayloadMembers(p) ==
  << <<"projectId", Json(ProjectId)>>, <<"status", Json(p.status)>>,
     <<"currentTask", Json(p.currentTask)>>, <<"completedTasks", Json(p.completedTasks)>>,
     <<"filesChanged", Json(p.filesChanged)>>,
     <<"buildStatus", JsonOrUndefined(p.buildStatus)>>,
     <<"error", JsonOrUndefined(p.error)>>, <<"timestamp", Json(Timestamp)>> >>

\* JSON.stringify of an object: its members in order, a member whose value is
\* undefined left out.
JsonStringify(members) == SelectSeq(members, LAMBDA m : m[2] # Undefined)

\* createHmac('sha256', key).update(bytes).digest('hex'): the digest stands for
\* the pair it was computed from (different pairs, different digests).
Hmac(key, bytes) == <<"hmac-sha256", key, bytes>>

\* Variant: the timestamp is left out of the signed bytes.
SignedBytesWithoutTimestamp(p) == JsonStringify(SubSeq(PayloadMembers(p), 1, 7))

\* Line 71: hmac.update(JSON.stringify(payload)).
SignedBytes(p) == JsonStringify(PayloadMembers(p))

\* Lines 70-72.
Signature(p) == Hmac(WebhookSecret, SignedBytes(p))

\* Lines 99-102: JSON.stringify({...payload, signature}).
RequestBody(p) ==
  JsonStringify(PayloadMembers(p) \o << <<"signature", Json(Signature(p))>> >>)

\* Variant: the fetch chain is awaited and its fault is not caught.
NotifierAwaited == FALSE

\* The fetch chain is started and not awaited, and its .catch swallows every
\* fault: the call's promise resolves without the delivery.
NotifierDetached == TRUE

\* How many pending fetches are followed: MaxInflight along the pipeline, every
\* one when the notifier is followed alone.
InflightBound == IF pc = "deliveries" THEN MaxCalls ELSE MaxInflight

\* Variant: a call starts its fetch once the pending ones have ended.
StartFetchSerialized(q, status) == <<status>>

\* The pending fetches after one more is started: the call waits for none of
\* them.  At most InflightBound are followed, the oldest having settled by the
\* time a further one starts.
StartFetch(q, status) ==
  Append(IF Len(q) >= InflightBound THEN Tail(q) ELSE q, status)

\* await sendProgressUpdate(...)
sendProgressUpdate(p) ==
  /\ lastNotification' = p
  /\ inflight' = StartFetch(inflight, p.status)
  /\ suspended' = ~NotifierDetached

NoNotify == UNCHANGED <<lastNotification, inflight, suspended>>

\* The script runs: it has not exited and is not held by an await on a delivery.
Running == exitCode = Undefined /\ ~suspended

\* The queue q without its k-th entry.
Without(q, k) == SubSeq(q, 1, k - 1) \o SubSeq(q, k + 1, Len(q))

\* Variant: an attempt that did not end in a 2xx response is queued again.
AttemptsAfterWithRetry(q, k, outcome) ==
  IF outcome = "ok" THEN Without(q, k) ELSE Append(Without(q, k), "retry")

\* Lines 103-121: the handlers of the chain only log; the attempt is over
\* whatever its outcome and nothing is queued.
AttemptsAfter(q, k, outcome) == Without(q, k)

\* Variant: the chain has no .catch and a failed fetch is an unhandled rejection.
FetchFaultUnhandled == FALSE

\* Lines 110-121: the .catch of the chain logs the fault and does not throw.
FetchFaultSwallowed == TRUE

\* A pending fetch settles: a response (2xx or not), a network error, or the
\* abort of the 5 s timer.  The outcome is logged; only an awaited or
\* uncaught delivery would hand a fault to the script.
DeliverySettles ==
  /\ exitCode = Undefined
  /\ \E k \in 1..Len(inflight), outcome \in Outcomes :
       /\ inflight' = AttemptsAfter(inflight, k, outcome)
       /\ suspended' = (suspended /\ k # Len(inflight))
       /\ IF /\ outcome \in {"networkError", "timeout"}
             /\ (suspended /\ k = Len(inflight)) \/ ~FetchFaultSwallowed
            THEN /\ fatal' = [NoError EXCEPT !.name = "WebhookError",
                                             !.message = <<"fetch failed">>]
                 /\ pc' = "exited"
                 /\ exitCode' = "1"
            ELSE UNCHANGED <<fatal, pc, exitCode>>
  /\ UNCHANGED <<env, tasks, store, commit, log, idx, taskStatuses, completedTaskIds, filesChanged,
                 finalResult, messageCount, lastNotification, hist>>

\* ------------------------------------------------------------ startup
\* Variant: PROJECT_ID is not among the variables validated.
ConfigurationValidWithoutProjectId ==
  {"ANTHROPIC_API_KEY", "WEBHOOK_URL", "WEBHOOK_SECRET"} \subseteq env

\* Lines 29-40: the four if (!value) throw ... tests all pass.
ConfigurationValid ==
  {"ANTHROPIC_API_KEY", "WEBHOOK_URL", "WEBHOOK_SECRET", "PROJECT_ID"} \subseteq env

\* Lines 28-40: a missing required variable throws at module level, before
\* main() is called; otherwise main() starts and sends its first update.
Startup ==
  /\ pc = "start" /\ Running
  /\ IF ConfigurationValid
       THEN /\ sendProgressUpdate(Payload("running", <<"Starting task execution...">>,
                                          <<>>, <<>>, Undefined, Undefined))
            /\ taskStatuses' = [k \in 1..Len(tasks) |-> "pending"]
            /\ pc' = "loop"
            /\ UNCHANGED <<fatal, exitCode>>
       ELSE /\ fatal' = [NoError EXCEPT !.name = "Error",
                           !.message = <<"environment variable is required">>]
            /\ pc' = "exited"
            /\ exitCode' = "1"
            /\ NoNotify
            /\ UNCHANGED taskStatuses
  /\ UNCHANGED <<env, tasks, store, commit, log, idx, completedTaskIds, filesChanged, finalResult,
                 messageCount, hist>>

\* ------------------------------------------------------------ task loop
\* taskStatuses.find(t => t.id === task.id): the first entry with the id.
FindStatus(id) == CHOOSE k \in 1..Len(tasks) : tasks[k] = id /\ \A j \in 1..(k - 1) : tasks[j] # id

SetStatus(id, st) == [taskStatuses EXCEPT ![FindStatus(id)] = st]

\* Lines 271-334: the head of the loop for the next task: status running, the
\* running update with the task's description, then query() and the for await.
TaskBegin ==
  /\ pc = "loop" /\ Running
  /\ idx <= Len(tasks)
  /\ taskStatuses' = SetStatus(tasks[idx], "running")
  /\ sendProgressUpdate(Payload("running", <<"description of", tasks[idx]>>,
                                completedTaskIds, filesChanged, Undefined, Undefined))
  /\ finalResult' = Null
  /\ messageCount' = 0
  /\ pc' = "streaming"
  /\ hist' = [hist EXCEPT !.invoked = Append(@, idx), !.active = @ + 1,
                          !.task = NoTaskHist]
  /\ UNCHANGED <<env, tasks, store, commit, log, idx, completedTaskIds, filesChanged, fatal, exitCode>>

\* Lines 486-539: the text the catch block sends as the update's error.
FullErrorMsg(err) ==
  <<"${errorDetails.message}">>
  \o (IF Truthy(Or(err.status, err.statusCode))
        THEN <<"Anthropic Status Code: ${errorDetails.anthropicStatusCode}">> ELSE <<>>)
  \o (IF Truthy(err.type)
        THEN <<"Anthropic Error Type: ${errorDetails.anthropicErrorType}">> ELSE <<>>)
  \o <<"Stack: ${errorDetails.stack}">>
  \o (IF Truthy(err.cause) THEN <<"Cause: ${JSON.stringify(errorDetails.cause)}">> ELSE <<>>)

\* Variant: the catch block does not rethrow and the loop goes on.
CatchSwallows == FALSE

\* Line 542: the catch block rethrows.
CatchRethrows == TRUE

\* Variant: the catch block sends the error update and the task is tried again.
TaskFailsAndRetries(err, h) ==
  /\ taskStatuses' = SetStatus(tasks[idx], "failed")
  /\ sendProgressUpdate(Payload("error", <<"Task failed: ", "${task.description}">>,
                                completedTaskIds, filesChanged, Undefined,
                                FullErrorMsg(err)))
  /\ fatal' = err
  /\ pc' = "loop"
  /\ hist' = [hist EXCEPT !.task = [h EXCEPT !.escaped = FALSE], !.active = 0,
                          !.failedAt = idx]
  /\ UNCHANGED <<env, tasks, store, commit, log, idx, completedTaskIds, filesChanged, exitCode>>

\* Lines 468-543, 1131-1155: the catch block of a task: status failed, the error
\* update, then throw error, which main().catch answers with process.exit(1).
\* Nothing but microtasks runs between the update and the exit.
TaskFails(err, h) ==
  /\ taskStatuses' = SetStatus(tasks[idx], "failed")
  /\ sendProgressUpdate(Payload("error", <<"Task failed: ", "${task.description}">>,
                                completedTaskIds, filesChanged, Undefined,
                                FullErrorMsg(err)))
  /\ fatal' = err
  /\ IF CatchRethrows
       THEN /\ pc' = "exited"
            /\ exitCode' = "1"
            /\ UNCHANGED idx
       ELSE /\ pc' = "loop"
            /\ idx' = idx + 1
            /\ UNCHANGED exitCode
  /\ hist' = [hist EXCEPT !.task = [h EXCEPT !.escaped = FALSE], !.active = 0,
                          !.failedAt = idx]
  /\ UNCHANGED <<env, tasks, store, commit, log, completedTaskIds, filesChanged>>

\* Variant: an id already completed is not pushed again.
CompletedAfterUnique(ids, id) == IF Includes(ids, id) THEN ids ELSE Append(ids, id)

\* Line 546: completedTaskIds.push(task.id).
CompletedAfter(ids, id) == Append(ids, id)

\* Variant: the 'Task completed' update is sent before the id is pushed.
TaskSucceedsNotifiesFirst(h) ==
  /\ taskStatuses' = SetStatus(tasks[idx], "completed")
  /\ completedTaskIds' = CompletedAfter(completedTaskIds, tasks[idx])
  /\ sendProgressUpdate(Payload("running", <<"Task completed: ", "${task.description}">>,
                                completedTaskIds, filesChanged, Undefined, Undefined))
  /\ idx' = idx + 1
  /\ pc' = "loop"
  /\ hist' = [hist EXCEPT !.task = [h EXCEPT !.escaped = FALSE], !.active = 0]
  /\ UNCHANGED <<env, tasks, store, commit, log, filesChanged, fatal, exitCode>>

\* Lines 545-589: after the try: status completed, the id pushed, the git status
\* count (logged only), and the 'Task completed' update.
TaskSucceeds(h) ==
  /\ taskStatuses' = SetStatus(tasks[idx], "completed")
  /\ completedTaskIds' = CompletedAfter(completedTaskIds, tasks[idx])
  /\ sendProgressUpdate(Payload("running", <<"Task completed: ", "${task.description}">>,
                                CompletedAfter(completedTaskIds, tasks[idx]), filesChanged,
                                Undefined, Undefined))
  /\ idx' = idx + 1
  /\ pc' = "loop"
  /\ hist' = [hist EXCEPT !.task = [h EXCEPT !.escaped = FALSE], !.active = 0]
  /\ UNCHANGED <<env, tasks, store, commit, log, filesChanged, fatal, exitCode>>

\* ------------------------------------------------------------ reducer
\* Line 377: new Error(`Task execution failed: \${message.subtype}`).
ResultFailureError(subtype) ==
  [NoError EXCEPT !.name = "Error",
                  !.message = <<"Task execution failed: ", "${message.subtype}">>]

\* Variant: the provider fields are left out of the raised error.
SdkErrorFlattened(e) ==
  [name |-> "Error", message |-> <<"Agent SDK error: ", "${errorDetails.message}">>,
   status |-> Undefined, statusCode |-> Undefined, type |-> Undefined,
   cause |-> Undefined]

\* Lines 380-408: the error raised for a message of type error; e is message.error.
SdkError(e) ==
  LET anthropicStatusCode == Or(Or(e.status, e.statusCode), Null)
      anthropicErrorType == Or(e.type, Null)
      cause == Or(e.cause, Null)
  IN [name |-> "Error",
      message |-> <<"Agent SDK error: ", "${errorDetails.message}">>,
      status |-> IF Truthy(anthropicStatusCode) THEN anthropicStatusCode ELSE Undefined,
      statusCode |-> IF Truthy(anthropicStatusCode) THEN anthropicStatusCode ELSE Undefined,
      type |-> IF Truthy(anthropicErrorType) THEN anthropicErrorType ELSE Undefined,
      cause |-> IF Truthy(cause) THEN cause ELSE Undefined]

\* The message.error objects the provider sends: each field absent or carrying
\* a value (the type never without a status code).
SdkErrors ==
  {e \in [status : {Undefined, "429"}, statusCode : {Undefined, "500"},
          type : {Undefined, "'overloaded_error'"}, cause : {Undefined, "'ECONNRESET'"}] :
     e.type # Undefined => e.status # Undefined \/ e.statusCode # Undefined}

IteratorError == [NoError EXCEPT !.name = "IteratorError", !.message = <<"stream fault">>]

NoResultError == [NoError EXCEPT !.name = "Error",
                                 !.message = <<"No result received from agent">>]

\* Variant: no break after a success result.
KeepsStreaming == "streaming"

\* Line 373: break leaves the loop on a success result (the stream is closed next).
AfterSuccessResult == "closing"

\* Lines 439-458: the catch around the for await: a fault is suppressed when
\* finalResult is truthy and rethrown otherwise.
IteratorFaultSuppressed(result) == Truthy(result)

\* Variant: the no-result check never throws.
NoResultCheckSkipped(result) == FALSE

\* Line 462: if (!finalResult) throw new Error('No result received from agent').
NoResultReceived(result) == ~Truthy(result)

\* Lines 460-467 and what follows the try: the no-result check, then success.
AfterStream(result, h) ==
  IF NoResultReceived(result)
    THEN TaskFails(NoResultError, h)
    ELSE TaskSucceeds(h)


\* One more message taken from the stream, as the drive's history records it.
Reduced(h, isResult) ==
  [h EXCEPT !.resultsReduced = IF isResult THEN @ + 1 ELSE @,
            !.afterSuccess = IF h.gotSuccess THEN @ + 1 ELSE @]

\* The agent is not answering the rejection of a hook: it delivers its next
\* message, or calls its next hook, only after that.
AgentGoesOn == ~hist.task.escaped

\* Lines 409-436: an assistant, tool_use, tool_result or unrecognized message
\* is logged and the loop goes on.
SideMessage ==
  /\ pc = "streaming" /\ Running /\ AgentGoesOn
  /\ messageCount < MaxMessages
  /\ \E type \in SideTypes :
       /\ type \notin {"result", "error"}
       /\ messageCount' = messageCount + 1
       /\ hist' = [hist EXCEPT !.task = Reduced(@, FALSE)]
  /\ NoNotify
  /\ UNCHANGED <<env, tasks, store, commit, log, pc, idx, taskStatuses, completedTaskIds, filesChanged,
                 finalResult, fatal, exitCode>>

\* Lines 350-373: a result message with subtype success: finalResult takes
\* message.result and the loop is left.
ResultSuccess ==
  /\ pc = "streaming" /\ Running /\ AgentGoesOn
  /\ messageCount <= MaxMessages
  /\ \E payload \in Payloads :
       /\ finalResult' = payload
       /\ hist' = [hist EXCEPT !.task = [Reduced(@, TRUE) EXCEPT !.gotSuccess = TRUE,
                                                                 !.payload = payload]]
  /\ messageCount' = messageCount + 1
  /\ pc' = AfterSuccessResult
  /\ NoNotify
  /\ UNCHANGED <<env, tasks, store, commit, log, idx, taskStatuses, completedTaskIds, filesChanged,
                 fatal, exitCode>>

\* Lines 374-378: a result message with another subtype throws.
ResultFailure ==
  /\ pc = "streaming" /\ Running /\ AgentGoesOn
  /\ messageCount <= MaxMessages
  /\ \E subtype \in FailureSubtypes :
       TaskFails(ResultFailureError(subtype),
                 [Reduced(hist.task, TRUE) EXCEPT !.failedSubtype = subtype])
  /\ messageCount' = messageCount + 1
  /\ UNCHANGED finalResult

\* Lines 379-408: a message of type error throws the error built from it.
ErrorMessage ==
  /\ pc = "streaming" /\ Running /\ AgentGoesOn
  /\ messageCount <= MaxMessages
  /\ \E e \in SdkErrors :
       TaskFails(SdkError(e), [Reduced(hist.task, FALSE) EXCEPT !.errorSeen = TRUE, !.sdkError = e])
  /\ messageCount' = messageCount + 1
  /\ UNCHANGED finalResult

\* Lines 439-458: a fault of the iteration lands in catch (iteratorError).
IteratorFault(h) ==
  IF IteratorFaultSuppressed(finalResult)
    THEN AfterStream(finalResult, [h EXCEPT !.fault = "suppressed"])
    ELSE TaskFails(IteratorError, [h EXCEPT !.fault = "rethrown"])

\* The stream's next() rejects while the loop iterates.
StreamFault ==
  /\ pc = "streaming" /\ Running /\ AgentGoesOn
  /\ IteratorFault(hist.task)
  /\ UNCHANGED <<finalResult, messageCount>>

\* The stream ends (done) and the loop is left normally.
StreamEnd ==
  /\ pc = "streaming" /\ Running /\ AgentGoesOn
  /\ AfterStream(finalResult, [hist.task EXCEPT !.ended = TRUE])
  /\ UNCHANGED <<finalResult, messageCount>>

\* After break the for await closes the stream (return()): it resolves, or it
\* rejects and the fault lands in the same catch (iteratorError).
CloseStream ==
  /\ pc = "closing" /\ Running /\ AgentGoesOn
  /\ \E faulty \in BOOLEAN :
       IF faulty THEN IteratorFault(hist.task)
                 ELSE AfterStream(finalResult, hist.task)
  /\ UNCHANGED <<finalResult, messageCount>>

\* ------------------------------------------------------------ hooks
\* The agent calls the hooks while the script awaits its stream: the session
\* and the tools run before the result message is handed over, and the session
\* may end while the stream is being closed.
InAgentDrive == pc = "streaming" /\ Running /\ AgentGoesOn

InSessionEnd == pc \in {"streaming", "closing"} /\ Running /\ AgentGoesOn

\* The hook inputs: a tool name, and a tool_input that gives a path under
\* file_path, under filePath, under both, or under neither (a Bash input
\* gives a command, or a stray file_path).
HookInputs ==
  {i \in [tool_name : ToolNames, file_path : PathInputs, filePath : PathInputs] :
     /\ Truthy(i.file_path) /\ Truthy(i.filePath) => i.file_path = i.filePath
     /\ i.filePath = EmptyString => i.file_path = Undefined
     /\ i.tool_name = "Bash" => i.filePath = Undefined /\ i.file_path # EmptyString}

\* The value the agent boundary hands to a hook as its input: one JSON can
\* hold, or one it cannot (a cycle, a BigInt).
InputValues == {"json", "cyclic"}

\* Lines 178, 186, 195, 216: JSON.stringify(input, null, 2), the hook's second
\* statement, throws a TypeError for a value JSON cannot hold.
StringifyThrows(value) == value = "cyclic"

\* No hook has a try around its body: the fault rejects the promise the hook
\* returned to the agent, before the hook has read or changed anything.
HookRejects ==
  /\ hist' = [hist EXCEPT !.task.escaped = TRUE]
  /\ NoNotify

\* input.tool_input?.file_path || input.tool_input?.filePath
FilePathOf(input) == Or(input.file_path, input.filePath)

\* Line 198: if (filePath && !filesChanged.includes(filePath)) in PreToolUse.
PreToolUseRecords(files, filePath) == Truthy(filePath) /\ ~Includes(files, filePath)

\* Variant: PostToolUse pushes the path without the includes test.
PostToolUseRecordsAlways(files, filePath) == Truthy(filePath)

\* Line 230: the same test in PostToolUse.
PostToolUseRecords(files, filePath) == Truthy(filePath) /\ ~Includes(files, filePath)

\* A Write/Edit observation that carries a path (the hook has read the path
\* from its input), as the run's history keeps it: the paths in the order they
\* were first observed, and whether a path has been observed again.
Observe(input) ==
  IF input.tool_name \in {"Write", "Edit"} /\ Truthy(FilePathOf(input))
    THEN IF Includes(hist.seen, FilePathOf(input))
           THEN hist' = [hist EXCEPT !.repeats = TRUE]
           ELSE hist' = [hist EXCEPT !.seen = Append(@, FilePathOf(input))]
    ELSE UNCHANGED hist

\* Variant: a Bash call that names a file is taken for a file operation.
FileToolOrBash(name) == name \in {"Write", "Edit", "Bash"}

\* Lines 196 and 219: input.tool_name === 'Write' || input.tool_name === 'Edit'.
FileTool(name) == name = "Write" \/ name = "Edit"

\* Variant: the path is pushed and no update is sent.
RecordFileSilently(records, input) ==
  IF FileTool(input.tool_name) /\ records
    THEN /\ filesChanged' = Append(filesChanged, FilePathOf(input))
         /\ NoNotify
    ELSE /\ UNCHANGED filesChanged
         /\ NoNotify

\* The body shared by the two tool hooks: push the path and send the update.
RecordFile(records, input) ==
  IF FileTool(input.tool_name) /\ records
    THEN /\ filesChanged' = Append(filesChanged, FilePathOf(input))
         /\ sendProgressUpdate(Payload("running", <<"">>, completedTaskIds,
                                       Append(filesChanged, FilePathOf(input)),
                                       Undefined, Undefined))
    ELSE /\ UNCHANGED filesChanged
         /\ NoNotify

\* Lines 175-182.
SessionStartHook ==
  /\ InAgentDrive
  /\ hist.task.session = "none"
  /\ \E value \in InputValues :
       IF StringifyThrows(value)
         THEN HookRejects
         ELSE /\ sendProgressUpdate(Payload("running",
                                            <<"Initializing Claude Agent SDK...">>,
                                            <<>>, <<>>, Undefined, Undefined))
              /\ hist' = [hist EXCEPT !.task.session = "started"]
  /\ UNCHANGED <<env, tasks, store, commit, log, pc, idx, taskStatuses, completedTaskIds, filesChanged,
                 finalResult, messageCount, fatal, exitCode>>

\* Lines 183-191: the update lists every task id.
SessionEndHook ==
  /\ InSessionEnd
  /\ hist.task.session = "started"
  /\ \E value \in InputValues :
       IF StringifyThrows(value)
         THEN HookRejects
         ELSE /\ sendProgressUpdate(Payload("completed", <<"All tasks completed">>,
                                            tasks, filesChanged, "success", Undefined))
              /\ hist' = [hist EXCEPT !.task.session = "ended"]
  /\ UNCHANGED <<env, tasks, store, commit, log, pc, idx, taskStatuses, completedTaskIds, filesChanged,
                 finalResult, messageCount, fatal, exitCode>>

\* Lines 192-212.
PreToolUseHook ==
  /\ InAgentDrive
  /\ \E value \in InputValues :
       IF StringifyThrows(value)
         THEN HookRejects /\ UNCHANGED filesChanged
         ELSE \E input \in HookInputs :
                /\ Observe(input)
                /\ RecordFile(PreToolUseRecords(filesChanged, FilePathOf(input)), input)
  /\ UNCHANGED <<env, tasks, store, commit, log, pc, idx, taskStatuses, completedTaskIds,
                 finalResult, messageCount, fatal, exitCode>>

\* Lines 213-249.
PostToolUseHook ==
  /\ InAgentDrive
  /\ \E value \in InputValues :
       IF StringifyThrows(value)
         THEN HookRejects /\ UNCHANGED filesChanged
         ELSE \E input \in HookInputs :
                /\ Observe(input)
                /\ RecordFile(PostToolUseRecords(filesChanged, FilePathOf(input)), input)
  /\ UNCHANGED <<env, tasks, store, commit, log, pc, idx, taskStatuses, completedTaskIds,
                 finalResult, messageCount, fatal, exitCode>>

\* The agent's answer to a hook that rejected is not the script's: the session
\* goes on, or the stream the script iterates (or closes) faults.
AgentAfterHookFault ==
  /\ pc \in {"streaming", "closing"} /\ Running
  /\ hist.task.escaped
  /\ \E goesOn \in BOOLEAN :
       IF goesOn
         THEN /\ hist' = [hist EXCEPT !.task.escaped = FALSE]
              /\ NoNotify
              /\ UNCHANGED <<pc, idx, taskStatuses, completedTaskIds, fatal, exitCode>>
         ELSE IteratorFault(hist.task)
  /\ UNCHANGED <<env, tasks, store, commit, log, filesChanged, finalResult, messageCount>>

\* ------------------------------------------------------------ build, publication
\* Lines 592-661: the completion guard, then the 'Running build command...' update.
\* The loop is left: its finalResult and messageCount are out of scope and the
\* history of the last drive is closed.
AfterLoop ==
  /\ pc = "loop" /\ Running
  /\ idx > Len(tasks)
  /\ IF Len(completedTaskIds) = Len(tasks)
       THEN /\ sendProgressUpdate(Payload("running", <<"Running build command...">>,
                                          completedTaskIds, <<>>, "building", Undefined))
            /\ pc' = "build"
            /\ UNCHANGED <<fatal, exitCode>>
       ELSE /\ fatal' = [NoError EXCEPT !.name = "Error",
                           !.message = <<"Cannot build: Only ${completedTaskIds.length} of ${tasks.length} tasks completed">>]
            /\ pc' = "exited"
            /\ exitCode' = "1"
            /\ NoNotify
  /\ finalResult' = Null
  /\ messageCount' = 0
  /\ hist' = [hist EXCEPT !.task = NoTaskHist]
  /\ UNCHANGED <<env, tasks, store, commit, log, idx, taskStatuses, completedTaskIds, filesChanged>>

\* What the build writes to stderr, as the parts of the text the script looks
\* for: nothing, a warning of the bundler, a WARN line of npm, a compiler
\* error, an error next to a warning, and a capitalized Warning.
BuildStderrs ==
  {<<>>, <<"(!) ", "warning", ": chunk size">>, <<"npm ", "WARN", " deprecated">>,
   <<"error TS2304">>, <<"error TS2304", " ", "warning", ": unused">>,
   <<"Warning", ": chunk size">>}

\* Variant: only 'warning' marks advisory output.
StderrIsErrorWithoutWARN(stderr) == stderr # <<>> /\ ~Includes(stderr, "warning")

\* Line 687: stderr && !stderr.includes('warning') && !stderr.includes('WARN').
StderrIsError(stderr) ==
  stderr # <<>> /\ ~Includes(stderr, "warning") /\ ~Includes(stderr, "WARN")

\* Variant: the catch around the build logs the error and main() returns.
BuildErrorSwallowed == FALSE

\* Line 1125: catch (buildError) logs the error and rethrows it.
BuildErrorRethrown == TRUE

\* Lines 670-693, 1109-1126: npm run build with its exit and its stderr; a
\* non-zero exit rejects, an error in stderr throws; both land in catch
\* (buildError), which sends nothing and rethrows to main().catch.
BuildRun(exitsZero, stderr) ==
  IF exitsZero /\ ~StderrIsError(stderr)
    THEN /\ sendProgressUpdate(Payload("completed", <<"Build successful">>,
                                       completedTaskIds, <<>>, "success", Undefined))
         /\ pc' = "built"
         /\ hist' = [hist EXCEPT !.build = "passed"]
         /\ UNCHANGED <<fatal, exitCode>>
    ELSE /\ hist' = [hist EXCEPT !.build = "failed"]
         /\ NoNotify
         /\ IF BuildErrorRethrown
              THEN /\ fatal' = [NoError EXCEPT !.name = "BuildError",
                                               !.message = <<"Build failed: ${stderr}">>]
                   /\ pc' = "exited"
                   /\ exitCode' = "1"
              ELSE /\ pc' = "returned"
                   /\ UNCHANGED <<fatal, exitCode>>

BuildStep ==
  /\ pc = "build" /\ Running
  /\ \E exitsZero \in BOOLEAN, stderr \in BuildStderrs : BuildRun(exitsZero, stderr)
  /\ UNCHANGED <<env, tasks, store, commit, log, idx, taskStatuses, completedTaskIds, filesChanged,
                 finalResult, messageCount>>

\* Variant: the repository URL alone opens the publication.
PublicationConfiguredByUrl == "GITHUB_URL" \in env

\* Line 696: if (githubUrl && githubToken).
PublicationConfigured == {"GITHUB_URL", "GITHUB_TOKEN"} \subseteq env

\* Lines 696-698, 1106-1108: publication runs when both GITHUB_URL and
\* GITHUB_TOKEN are set.
PublicationGate ==
  /\ pc = "built" /\ Running
  /\ IF PublicationConfigured
       THEN /\ sendProgressUpdate(Payload("running", <<"Committing code to GitHub...">>,
                                          completedTaskIds, filesChanged,
                                          Undefined, Undefined))
            /\ pc' = "publish"
       ELSE /\ NoNotify
            /\ pc' = "returned"
  /\ UNCHANGED <<env, tasks, store, commit, log, idx, taskStatuses, completedTaskIds, filesChanged,
                 finalResult, messageCount, fatal, exitCode, hist>>

\* ------------------------------------------------------------ the repository
\* The paths of the working directory the model follows, and a file as git
\* sees it: the version HEAD holds, the version the index holds and the version
\* the working tree holds (0: none).
RepoPaths == <<GitIgnore, SrcATsx, VerifyMjs>>

File(head, index, work) == [head |-> head, index |-> index, work |-> work]

Absent == File(0, 0, 0)
Untracked == File(0, 0, 1)
Added == File(0, 1, 1)
Clean == File(1, 1, 1)
Modified == File(1, 1, 2)
StagedEdit == File(1, 2, 2)

\* The working directories the publication may find: .gitignore absent or
\* committed, naming the temporary files or not; a source file new, unchanged
\* or edited; a temporary file in any state.
Repos ==
  {repo \in [files : [1..Len(RepoPaths) -> {Absent, Untracked, Added, Clean,
                                            Modified, StagedEdit}],
             ignores : BOOLEAN] :
     /\ repo.files[1] \in {Absent, Clean}
     /\ repo.ignores => repo.files[1] = Clean
     /\ repo.files[2] \in {Untracked, Clean, Modified}}

IsTempFile(path) == Includes(tempFiles, path)

\* The two status letters of a tracked file.
IndexCode(f) ==
  IF f.head = 0 /\ f.index # 0 THEN "A"
  ELSE IF f.head # 0 /\ f.index = 0 THEN "D"
  ELSE IF f.head # f.index THEN "M"
  ELSE Space

WorkCode(f) ==
  IF f.index # 0 /\ f.work = 0 THEN "D"
  ELSE IF f.index # 0 /\ f.work # f.index THEN "M"
  ELSE Space

\* git status --porcelain: the changed tracked files, then the untracked files
\* .gitignore does not name, one line each: two status letters, a space, the path.
RECURSIVE TrackedLines(_, _)
TrackedLines(repo, k) ==
  IF k > Len(RepoPaths) THEN <<>>
  ELSE (IF IndexCode(repo.files[k]) # Space \/ WorkCode(repo.files[k]) # Space
          THEN << <<IndexCode(repo.files[k]), WorkCode(repo.files[k]), Space>>
                  \o RepoPaths[k] >>
          ELSE <<>>)
       \o TrackedLines(repo, k + 1)

RECURSIVE UntrackedLines(_, _)
UntrackedLines(repo, k) ==
  IF k > Len(RepoPaths) THEN <<>>
  ELSE (IF /\ repo.files[k].index = 0 /\ repo.files[k].work # 0
           /\ ~(repo.ignores /\ IsTempFile(RepoPaths[k]))
          THEN << <<"?", "?", Space>> \o RepoPaths[k] >>
          ELSE <<>>)
       \o UntrackedLines(repo, k + 1)

GitStatus(repo) == TrackedLines(repo, 1) \o UntrackedLines(repo, 1)

\* Lines 787-796: rm -f of each temporary file.
RmTempFiles(repo) ==
  [repo EXCEPT !.files = [k \in 1..Len(RepoPaths) |->
     IF IsTempFile(RepoPaths[k]) THEN [repo.files[k] EXCEPT !.work = 0]
                                 ELSE repo.files[k]]]

\* Lines 798-828: the temporary files' names are appended to .gitignore (or
\* the file is created) unless grep finds the first of them there.
UpdateGitIgnore(repo) ==
  IF repo.ignores THEN repo
  ELSE [repo EXCEPT !.ignores = TRUE,
                    !.files = [k \in 1..Len(RepoPaths) |->
                       IF RepoPaths[k] = GitIgnore
                         THEN [repo.files[k] EXCEPT !.work = IF @ = 0 THEN 1 ELSE 2]
                         ELSE repo.files[k]]]

\* Lines 830-840: git rm --cached of each temporary file: the file leaves the
\* index (git refuses, and the fault is dropped, when the staged content is
\* neither HEAD's nor that of a file still in the working tree).
RmCachedTempFiles(repo) ==
  [repo EXCEPT !.files = [k \in 1..Len(RepoPaths) |->
     IF /\ IsTempFile(RepoPaths[k])
        /\ \/ repo.files[k].work = 0
           \/ repo.files[k].index = repo.files[k].head
           \/ repo.files[k].index = repo.files[k].work
       THEN [repo.files[k] EXCEPT !.index = 0]
       ELSE repo.files[k]]]

\* Line 844: git add -A: the index takes the working tree, but for the
\* untracked files .gitignore names.
GitAddAll(repo) ==
  [repo EXCEPT !.files = [k \in 1..Len(RepoPaths) |->
     IF /\ repo.files[k].index = 0 /\ repo.files[k].work # 0
        /\ repo.ignores /\ IsTempFile(RepoPaths[k])
       THEN repo.files[k]
       ELSE [repo.files[k] EXCEPT !.index = repo.files[k].work]]]

\* Line 852: git diff --cached --name-only: the paths whose index differs from HEAD.
DiffCachedNames(repo) ==
  SelectSeq(RepoPaths,
            LAMBDA path : \E k \in 1..Len(RepoPaths) :
                            /\ RepoPaths[k] = path
                            /\ repo.files[k].head # repo.files[k].index)

\* Line 859: filesList.filter(f => tempFiles.some(tf => f.includes(tf))).
tempFilesStaged(filesList) ==
  SelectSeq(filesList,
            LAMBDA f : \E t \in 1..Len(tempFiles) : Contains(f, tempFiles[t]))

\* Lines 863-867: git reset HEAD "<file>" of each of them: the index takes
\* HEAD's version back.
ResetHead(repo, files) ==
  [repo EXCEPT !.files = [k \in 1..Len(RepoPaths) |->
     IF Includes(files, RepoPaths[k])
       THEN [repo.files[k] EXCEPT !.index = repo.files[k].head]
       ELSE repo.files[k]]]

\* git commit has nothing to record and exits with 1.
NothingStaged(repo) ==
  \A k \in 1..Len(RepoPaths) : repo.files[k].head = repo.files[k].index

\* Lines 787-872: the directory after the cleanup, git add -A and the check
\* of the staged files (checks: the check ran; its fault is caught and leaves
\* the directory as staged).
Staged(repo) == GitAddAll(RmCachedTempFiles(UpdateGitIgnore(RmTempFiles(repo))))

Checked(repo, checks) ==
  IF checks THEN ResetHead(Staged(repo), tempFilesStaged(DiffCachedNames(Staged(repo))))
            ELSE Staged(repo)

\* Lines 758-913 over one working directory: whether the first status shows
\* changes and, when it does, whether git commit will find nothing staged, and
\* the locals actualFilesChanged and actualFilesList taken from the re-queried
\* status.
CommitRun(repo, checks) ==
  IF GitStatus(repo) = <<>>
    THEN [changes |-> FALSE, rejects |-> FALSE, locals |-> NoCommit]
    ELSE [changes |-> TRUE,
          rejects |-> NothingStaged(Checked(repo, checks)),
          locals |-> [fromStatus |-> TRUE,
                      statusLines |-> GitStatus(Checked(repo, checks)),
                      actualFilesChanged |-> Len(GitStatus(Checked(repo, checks))),
                      actualFilesList |-> ParseStatus(GitStatus(Checked(repo, checks)))]]

CommitRuns == {CommitRun(repo, checks) : repo \in Repos, checks \in BOOLEAN}

\* Lines 907-913: the re-queried status faulted: the hooks' list is used.
FallbackLocals(files) ==
  [fromStatus |-> FALSE, statusLines |-> <<>>, actualFilesChanged |-> Len(files),
   actualFilesList |-> [k \in 1..Len(files) |-> Chars(files[k])]]

\* ------------------------------------------------------------ publication steps
GithubToken == "'ghp_token'"

\* Lines 740-741: 'https://' + githubToken + '@' + repoUrl.host + repoUrl.pathname.
remoteUrl == <<"https://", GithubToken, "@", "github.com/owner/repo">>

\* text.replace(githubToken, '***'): the first occurrence is replaced.
Redact(text) ==
  [k \in 1..Len(text) |->
     IF text[k] = GithubToken /\ \A j \in 1..(k - 1) : text[j] # GithubToken
       THEN "***" ELSE text[k]]

\* What git remote get-url origin prints: nothing (there is no origin), a URL
\* without a credential, or the URL an earlier run of the script configured.
Origins == {<<>>, <<"https://github.com/owner/repo">>, remoteUrl}

\* Variant: catch (gitError) rethrows after logging.
GitErrorRethrown == FALSE

\* Lines 1102-1104: catch (gitError) does not fail the run; it sends a
\* completed update and main() goes on to return.
GitErrorDemoted == TRUE

\* Lines 1054-1105: catch (gitError), reached from the command that failed; h is
\* the history with the commands the step had run by then, lines what the step
\* and the catch block wrote to the console that quotes a remote URL.
CatchGitError(h, lines) ==
  /\ hist' = [h EXCEPT !.publication = "demoted"]
  /\ log' = log \cup lines
  /\ IF GitErrorDemoted
       THEN /\ sendProgressUpdate(Payload("completed",
                                          <<"Build successful (Git push failed)">>,
                                          completedTaskIds, filesChanged, "success",
                                          Undefined))
            /\ pc' = "returned"
            /\ UNCHANGED <<fatal, exitCode>>
       ELSE /\ NoNotify
            /\ fatal' = [NoError EXCEPT !.name = "GitError",
                                        !.message = <<"Git push failed">>]
            /\ pc' = "exited"
            /\ exitCode' = "1"

\* A step of the publication went through: on to the next one.
GitStepDone(h, next, lines) ==
  /\ hist' = h
  /\ log' = log \cup lines
  /\ pc' = next
  /\ NoNotify
  /\ UNCHANGED <<fatal, exitCode>>

\* Lines 701-754: git rev-parse (git init when it fails), the two git config
\* commands, git remote get-url (its output logged as it is, line 734), new
\* URL(githubUrl), git remote set-url or add, and the log of the redacted URL
\* (line 754).  failsAt names the command that rejects ("url": new URL throws);
\* the message of a rejected command quotes its command line, and catch
\* (gitError) logs the message (line 1065).
GitSetup ==
  /\ pc = "publish" /\ Running
  /\ \E initialized \in BOOLEAN, origin \in Origins,
        failsAt \in {"none", "init", "config", "url", "remote"} :
       /\ failsAt = "init" => ~initialized
       /\ failsAt \in {"init", "config"} => origin = <<>>
       /\ LET ran == {"rev-parse"}
                     \cup (IF initialized THEN {} ELSE {"init"})
                     \cup (IF failsAt = "init" THEN {} ELSE {"config"})
                     \cup (IF failsAt \in {"init", "config"} THEN {} ELSE {"remote get-url"})
                     \cup (IF failsAt \in {"init", "config", "url"} THEN {} ELSE {"remote"})
              exists == IF origin # <<>>
                          THEN {<<"Remote origin exists: ">> \o origin} ELSE {}
              command == IF origin # <<>> THEN "git remote set-url origin "
                                          ELSE "git remote add origin "
              h == [hist EXCEPT !.git = @ \cup ran]
          IN IF failsAt = "none"
               THEN GitStepDone(h, "gitStatus",
                                exists \cup {<<"Remote URL configured: ">> \o Redact(remoteUrl)})
               ELSE IF failsAt = "remote"
                 THEN CatchGitError(h, exists \cup {<<"Git Error Message: ", "Command failed: ",
                                                     command>> \o remoteUrl})
                 ELSE CatchGitError(h, exists)
  /\ commit' = NoCommit
  /\ UNCHANGED <<env, tasks, store, idx, taskStatuses, completedTaskIds, filesChanged,
                 finalResult, messageCount>>

\* Variant: with nothing to commit the publication is over.
AfterNoChangesReturns == "returned"

\* Lines 762-773: with no change the last commit is logged and the script goes
\* on to the branch and the push.
AfterNoChanges == "gitPush"

\* Lines 756-952: git status --porcelain; with no change git log only; with
\* changes the cleanup of the temporary files, git add -A, the check of the
\* staged files, the re-queried status and the names taken from it (the hooks'
\* list when the query fails), and git commit with the message built from
\* them.  failsAt names the command that rejects; the fault of the re-queried
\* status is caught where it arises.  The locals of the commit block do not
\* outlive it.
GitCommit ==
  /\ pc = "gitStatus" /\ Running
  /\ \E run \in CommitRuns, failsAt \in {"none", "status", "add", "requery", "commit"} :
       LET locals == IF failsAt = "requery" THEN FallbackLocals(filesChanged)
                                            ELSE run.locals
           cleaned == {"status", "rm --cached", "add"}
       IN IF failsAt = "status"
            THEN /\ CatchGitError([hist EXCEPT !.git = @ \cup {"status"}], {})
                 /\ commit' = NoCommit
          ELSE IF ~run.changes
            THEN /\ failsAt = "none"
                 /\ GitStepDone([hist EXCEPT !.git = @ \cup {"status", "log"},
                                             !.changes = "none"], AfterNoChanges, {})
                 /\ commit' = NoCommit
          ELSE IF failsAt = "add"
            THEN /\ CatchGitError([hist EXCEPT !.git = @ \cup cleaned,
                                               !.changes = "some"], {})
                 /\ commit' = NoCommit
          ELSE IF failsAt = "commit" \/ run.rejects
            THEN /\ CatchGitError([hist EXCEPT !.git = @ \cup cleaned
                                                        \cup {"diff --cached", "commit"},
                                               !.changes = "some"], {})
                 /\ commit' = NoCommit
          ELSE /\ GitStepDone([hist EXCEPT !.git = @ \cup cleaned
                                                      \cup {"diff --cached", "commit", "log"},
                                           !.changes = "some"], "gitPush", {})
               /\ commit' = locals
  /\ UNCHANGED <<env, tasks, store, idx, taskStatuses, completedTaskIds, filesChanged,
                 finalResult, messageCount>>

\* What git branch --show-current gives: a name, nothing, or a failure.
BranchResults == {"'main'", "'feature'", EmptyString, "error"}

\* Lines 959-989: currentBranch is the name when there is one, 'main' otherwise.
CurrentBranch(result) == IF result \in {EmptyString, "error"} THEN "'main'" ELSE result

\* Variant: the fallback push is made whatever the branch.
PushFallbackAlways(pushOk, branch) == ~pushOk

\* Lines 1005-1011: the push to main is tried when the first push failed and
\* the current branch is not main.
PushFallback(pushOk, branch) == ~pushOk /\ branch # "'main'"

\* Lines 954-1053: the redacted URL is logged, the branch is resolved (git
\* checkout -b main when there is none, its failure caught), then git push -u
\* origin <branch>, then, when PushFallback, git push -u origin main.  The
\* message of a rejected push quotes its command line, which names the remote
\* and not its URL.
GitPush ==
  /\ pc = "gitPush" /\ Running
  /\ \E result \in BranchResults, pushOk \in BOOLEAN, fallbackOk \in BOOLEAN :
       LET fallback == PushFallback(pushOk, CurrentBranch(result))
           ran == {"branch", "push"}
                  \cup (IF result \in {EmptyString, "error"} THEN {"checkout"} ELSE {})
                  \cup (IF fallback THEN {"push main"} ELSE {})
           pushes == <<[branch |-> CurrentBranch(result), ok |-> pushOk]>>
                     \o (IF fallback THEN <<[branch |-> "'main'", ok |-> fallbackOk]>>
                                     ELSE <<>>)
           pushSucceeded == pushOk \/ (fallback /\ fallbackOk)
           h == [hist EXCEPT !.git = @ \cup ran, !.pushes = @ \o pushes]
           lines == {<<"Remote URL configured: ">> \o Redact(remoteUrl)}
       IN /\ fallbackOk => fallback
          /\ IF pushSucceeded
               THEN /\ hist' = [h EXCEPT !.publication = "pushed"]
                    /\ log' = log \cup lines
                    /\ sendProgressUpdate(Payload("completed",
                                                  <<"Code committed and pushed to GitHub">>,
                                                  completedTaskIds, filesChanged,
                                                  "success", Undefined))
                    /\ pc' = "returned"
                    /\ UNCHANGED <<fatal, exitCode>>
               ELSE CatchGitError(h, lines)
  /\ commit' = NoCommit
  /\ UNCHANGED <<env, tasks, store, idx, taskStatuses, completedTaskIds, filesChanged,
                 finalResult, messageCount>>

\* main() has returned: the process ends with code 0 once no fetch is pending.
ProcessExit ==
  /\ pc = "returned" /\ Running
  /\ inflight = <<>>
  /\ pc' = "exited"
  /\ exitCode' = "0"
  /\ NoNotify
  /\ UNCHANGED <<env, tasks, store, commit, log, idx, taskStatuses, completedTaskIds, filesChanged,
                 finalResult, messageCount, fatal, hist>>

\* ------------------------------------------------------------ specification
Next ==
  \/ Startup
  \/ TaskBegin
  \/ SideMessage
  \/ ResultSuccess
  \/ ResultFailure
  \/ ErrorMessage
  \/ StreamFault
  \/ StreamEnd
  \/ CloseStream
  \/ SessionStartHook
  \/ SessionEndHook
  \/ PreToolUseHook
  \/ PostToolUseHook
  \/ AgentAfterHookFault
  \/ AfterLoop
  \/ BuildStep
  \/ PublicationGate
  \/ GitSetup
  \/ GitCommit
  \/ GitPush
  \/ ProcessExit
  \/ DeliverySettles

Spec == Init /\ [][Next]_vars

\* ------------------------------------------------------------ the notifier alone
\* The arguments the callers pass: a status, a task text, completed ids, a file
\* list, a build status or none, an error text or none.
NotifierArguments ==
  [status : {"running", "completed", "error"},
   currentTask : {<<"">>, <<"Task failed: ", "${task.description}">>},
   completedTasks : UNION {[1..n -> TaskIds] : n \in 0..MaxTasks},
   filesChanged : {<<>>, <<"'src/a.tsx'">>, <<"'src/a.tsx'", "'src/b.tsx'">>},
   buildStatus : {Undefined, "building", "success"},
   hasError : BOOLEAN]

NotifierInit ==
  /\ env = RequiredEnv
  /\ tasks = <<>>
  /\ pc = "notifier"
  /\ idx = 1
  /\ taskStatuses = <<>>
  /\ completedTaskIds = <<>>
  /\ filesChanged = <<>>
  /\ finalResult = Null
  /\ messageCount = 0
  /\ fatal = NoError
  /\ exitCode = Undefined
  /\ inflight = <<>>
  /\ lastNotification = NoNotification
  /\ suspended = FALSE
  /\ commit = NoCommit
  /\ log = {}
  /\ store = NoStore
  /\ hist = InitHist

\* Lines 46-122: one call of sendProgressUpdate.
NotifierCall ==
  /\ pc = "notifier"
  /\ \E a \in NotifierArguments :
       sendProgressUpdate(Payload(a.status, a.currentTask, a.completedTasks,
                                  a.filesChanged, a.buildStatus,
                                  IF a.hasError THEN <<"${errorDetails.message}">>
                                                ELSE Undefined))
  /\ pc' = "notified"
  /\ UNCHANGED <<env, tasks, store, commit, log, idx, taskStatuses, completedTaskIds, filesChanged,
                 finalResult, messageCount, fatal, exitCode, hist>>

NotifierNext == NotifierCall \/ (pc = "notified" /\ DeliverySettles)

NotifierSpec == NotifierInit /\ [][NotifierNext]_vars

\* ------------------------------------------------------------ the deliveries alone
\* The notifier called MaxCalls times in a row, each call awaited by its caller
\* as the pipeline awaits it, while the fetches settle when the network lets them.
DeliveryInit ==
  /\ env = RequiredEnv
  /\ tasks = <<>>
  /\ pc = "deliveries"
  /\ idx = 1
  /\ taskStatuses = <<>>
  /\ completedTaskIds = <<>>
  /\ filesChanged = <<>>
  /\ finalResult = Null
  /\ messageCount = 0
  /\ fatal = NoError
  /\ exitCode = Undefined
  /\ inflight = <<>>
  /\ lastNotification = NoNotification
  /\ suspended = FALSE
  /\ commit = NoCommit
  /\ log = {}
  /\ store = NoStore
  /\ hist = InitHist

\* Lines 46-122: the idx-th call, made once the call before it has returned.
DeliveryCall ==
  /\ pc = "deliveries" /\ Running
  /\ idx <= MaxCalls
  /\ \E a \in NotifierArguments :
       /\ a.currentTask = <<"">> /\ a.completedTasks = <<>> /\ a.filesChanged = <<>>
       /\ sendProgressUpdate(Payload(a.status, a.currentTask, a.completedTasks,
                                     a.filesChanged, a.buildStatus,
                                     IF a.hasError THEN <<"${errorDetails.message}">>
                                                   ELSE Undefined))
  /\ idx' = idx + 1
  /\ UNCHANGED <<env, tasks, store, commit, log, pc, taskStatuses, completedTaskIds, filesChanged,
                 finalResult, messageCount, fatal, exitCode, hist>>

DeliveryNext == DeliveryCall \/ (pc = "deliveries" /\ DeliverySettles)

DeliverySpec == DeliveryInit /\ [][DeliveryNext]_vars

\* ------------------------------------------------------------ the task store
\* src/stores/taskStore.ts over src/lib/storage/db.ts.  A task is followed by
\* its id, title and tags, a list and a tag by id and name; the timestamps a
\* record carries are written alike to both sides and are left out.  An object
\* store is the set of its records, one per key.

\* utils.ts 10-12: crypto.randomUUID() returns an id no record of the kind
\* bears, in memory or in the database.
generateId(ids, array, objectStore) ==
  {id \in ids : /\ \A k \in 1..Len(array) : array[k].id # id
                 /\ \A r \in objectStore : r.id # id}

\* utils.ts 17-34, 39-49, 54-62: the defaults overridden by the caller's fields.
createTask(id, overrides) == [id |-> id, title |-> overrides.title, tags |-> overrides.tags]
createTaskList(id, overrides) == [id |-> id, name |-> overrides.name]
createTag(id, overrides) == [id |-> id, name |-> overrides.name]

\* db.ts 103-137 (taskDB), 194-228 (listDB), 272-306 (tagDB): add inserts (its
\* request fails on a key the object store holds, which a generated id never
\* is), put replaces or inserts, delete removes the record of the key from
\* that object store and from no other.
add(objectStore, record) == objectStore \cup {record}
put(objectStore, record) == {r \in objectStore : r.id # record.id} \cup {record}
delete(objectStore, id) == {r \in objectStore : r.id # id}

\* db.ts 151-161, 242-252, 320-330: getAll returns the records in key order.
RECURSIVE getAll(_)
getAll(objectStore) ==
  IF objectStore = {} THEN <<>>
  ELSE LET first == CHOOSE r \in objectStore : \A o \in objectStore : r.id <= o.id
       IN <<first>> \o getAll(objectStore \ {first})

\* Array.prototype.map replacing the element of the id, and filter dropping it.
MapById(array, record) ==
  [k \in 1..Len(array) |-> IF array[k].id = record.id THEN record ELSE array[k]]
FilterOutId(array, id) == SelectSeq(array, LAMBDA r : r.id # id)
Elements(array) == {array[k] : k \in 1..Len(array)}

\* What the interface passes: the fields of a new record, an edited copy of a
\* record in memory, the id of a record in memory.
TaskData == [title : {"", "edited"}, tags : SUBSET {t.id : t \in Elements(store.tags)}]

\* One store action: set(...) replaces the store's state; the orchestrator's
\* variables are no part of it.
StoreStep(next) ==
  /\ pc = "store"
  /\ store' = next
  /\ UNCHANGED <<env, tasks, pc, idx, taskStatuses, completedTaskIds, filesChanged,
                 finalResult, messageCount, fatal, exitCode, inflight,
                 lastNotification, suspended, commit, log, hist>>

\* The catch block of every action: the message is kept and the error rethrown.
Failed == [store EXCEPT !.error = "request.error.message"]

\* taskStore.ts 101-118.
addTask ==
  \E id \in generateId(1..MaxRecords, store.tasks, store.db.tasks), taskData \in TaskData, ok \in BOOLEAN :
    LET newTask == createTask(id, taskData) IN
    StoreStep(IF ok
              THEN [store EXCEPT !.error = Null,
                                 !.db.tasks = add(@, newTask),
                                 !.tasks = Append(@, newTask)]
              ELSE Failed)

\* taskStore.ts 120-140.
updateTask ==
  \E k \in 1..Len(store.tasks), taskData \in TaskData, ok \in BOOLEAN :
    LET updatedTask == createTask(store.tasks[k].id, taskData) IN
    StoreStep(IF ok
              THEN [store EXCEPT !.error = Null,
                                 !.db.tasks = put(@, updatedTask),
                                 !.tasks = MapById(@, updatedTask)]
              ELSE Failed)

\* taskStore.ts 142-158.
deleteTask ==
  \E k \in 1..Len(store.tasks), ok \in BOOLEAN :
    LET taskId == store.tasks[k].id IN
    StoreStep(IF ok
              THEN [store EXCEPT !.error = Null,
                                 !.db.tasks = delete(@, taskId),
                                 !.tasks = FilterOutId(@, taskId)]
              ELSE Failed)

\* taskStore.ts 177-194.
addList ==
  \E id \in generateId(1..MaxLabels, store.lists, store.db.lists), listData \in [name : {"", "edited"}], ok \in BOOLEAN :
    LET newList == createTaskList(id, listData) IN
    StoreStep(IF ok
              THEN [store EXCEPT !.error = Null,
                                 !.db.lists = add(@, newList),
                                 !.lists = Append(@, newList)]
              ELSE Failed)

\* taskStore.ts 196-216.
updateList ==
  \E k \in 1..Len(store.lists), listData \in [name : {"", "edited"}], ok \in BOOLEAN :
    LET updatedList == createTaskList(store.lists[k].id, listData) IN
    StoreStep(IF ok
              THEN [store EXCEPT !.error = Null,
                                 !.db.lists = put(@, updatedList),
                                 !.lists = MapById(@, updatedList)]
              ELSE Failed)

\* taskStore.ts 218-236: the selection is cleared when it is the deleted list.
deleteList ==
  \E k \in 1..Len(store.lists), ok \in BOOLEAN :
    LET listId == store.lists[k].id IN
    StoreStep(IF ok
              THEN [store EXCEPT !.error = Null,
                                 !.db.lists = delete(@, listId),
                                 !.lists = FilterOutId(@, listId),
                                 !.selectedListId = IF @ = listId THEN 0 ELSE @]
              ELSE Failed)

\* taskStore.ts 255-272.
addTag ==
  \E id \in generateId(1..MaxLabels, store.tags, store.db.tags), tagData \in [name : {"", "edited"}], ok \in BOOLEAN :
    LET newTag == createTag(id, tagData) IN
    StoreStep(IF ok
              THEN [store EXCEPT !.error = Null,
                                 !.db.tags = add(@, newTag),
                                 !.tags = Append(@, newTag)]
              ELSE Failed)

\* taskStore.ts 274-290: the tag is stored as given.
updateTag ==
  \E k \in 1..Len(store.tags), tagData \in [name : {"", "edited"}], ok \in BOOLEAN :
    LET tag == createTag(store.tags[k].id, tagData) IN
    StoreStep(IF ok
              THEN [store EXCEPT !.error = Null,
                                 !.db.tags = put(@, tag),
                                 !.tags = MapById(@, tag)]
              ELSE Failed)

\* taskStore.ts 292-312: tagDB.delete removes the tag's record (db.ts 296-306);
\* set(...) drops the tag and takes its id off every task in memory.
deleteTag ==
  \E k \in 1..Len(store.tags), ok \in BOOLEAN :
    LET tagId == store.tags[k].id IN
    StoreStep(IF ok
              THEN [store EXCEPT
                      !.error = Null,
                      !.db.tags = delete(@, tagId),
                      !.tags = FilterOutId(@, tagId),
                      !.tasks = [j \in 1..Len(store.tasks) |->
                                 [store.tasks[j] EXCEPT !.tags = @ \ {tagId}]]]
              ELSE Failed)

\* taskStore.ts 374-376.
setSelectedListId ==
  \E listId \in {0} \cup {l.id : l \in Elements(store.lists)} :
    StoreStep([store EXCEPT !.selectedListId = listId])

\* taskStore.ts 399-418 with loadTasks (160-175), loadLists (238-253), loadTags
\* (314-329) and loadSettings (354-372): each load replaces its array by
\* getAll() of its object store, or on a rejected request keeps the array and
\* leaves the message in error; loadSettings stores the default settings when
\* none are stored.
loadAllData ==
  \E okTasks \in BOOLEAN, okLists \in BOOLEAN, okTags \in BOOLEAN :
  \E okSettings \in BOOLEAN :
    LET loaded == [store EXCEPT
          !.error = IF okTasks /\ okLists /\ okTags /\ okSettings THEN Null
                    ELSE "request.error.message",
          !.tasks = IF okTasks THEN getAll(store.db.tasks) ELSE @,
          !.lists = IF okLists THEN getAll(store.db.lists) ELSE @,
          !.tags = IF okTags THEN getAll(store.db.tags) ELSE @,
          !.settings = IF okSettings THEN "app-settings" ELSE @,
          !.db.settings = IF okSettings THEN "app-settings" ELSE @]
    IN StoreStep(loaded)

StoreInit ==
  /\ env = RequiredEnv
  /\ tasks = <<>>
  /\ pc = "store"
  /\ idx = 1
  /\ taskStatuses = <<>>
  /\ completedTaskIds = <<>>
  /\ filesChanged = <<>>
  /\ finalResult = Null
  /\ messageCount = 0
  /\ fatal = NoError
  /\ exitCode = Undefined
  /\ inflight = <<>>
  /\ lastNotification = NoNotification
  /\ suspended = FALSE
  /\ commit = NoCommit
  /\ log = {}
  /\ store = NoStore
  /\ hist = InitHist

StoreSpec ==
  /\ StoreInit
  /\ [][\/ addTask \/ updateTask \/ deleteTask
        \/ addList \/ updateList \/ deleteList
        \/ addTag \/ updateTag \/ deleteTag
        \/ setSelectedListId
        \/ loadAllData]_vars

\* ------------------------------------------------------------ properties
\* The task the latest agent invocation drove, and its entry of taskStatuses.
Driven == hist.invoked[Len(hist.invoked)]
DrivenStatus == taskStatuses[FindStatus(tasks[Driven])]

\* The drive of the latest task is over (its stream reduced and closed).
DriveOver == Len(hist.invoked) > 0 /\ pc \notin {"streaming", "closing"}

NoDuplicates(arr) == \A j, k \in 1..Len(arr) : arr[j] = arr[k] => j = k

\* C1: the agent is invoked for the tasks in list order, each invocation
\* starting only after every earlier one ended in success (its id completed),
\* and never while another invocation is in progress.
SequentialInvocation ==
  /\ hist.active <= 1
  /\ hist.active = 1 <=> pc \in {"streaming", "closing"}
  /\ \A k \in 1..Len(hist.invoked) : hist.invoked[k] = k
  /\ \A k \in 1..(Len(hist.invoked) - 1) :
       /\ k <= Len(completedTaskIds)
       /\ completedTaskIds[k] = tasks[k]

\* The second task's invocation is in progress.
SecondInvocationRunning == Len(hist.invoked) = 2 /\ pc = "streaming"

\* C2: when the k-th task's invocation fails, the run is over with exit code
\* 1, completedTaskIds is the ids of the k-1 earlier tasks in order, and the
\* agent was invoked for tasks 1..k once each and for no later task.
AbortOnFailure ==
  hist.failedAt # 0 =>
    /\ pc = "exited"
    /\ exitCode = "1"
    /\ completedTaskIds = SubSeq(tasks, 1, hist.failedAt - 1)
    /\ hist.invoked = [k \in 1..hist.failedAt |-> k]

\* The second of several tasks failed.
SecondTaskFailed == hist.failedAt = 2 /\ exitCode = "1" /\ Len(completedTaskIds) = 1

\* C3: once the stream has delivered a success result (before any failure),
\* whatever its payload, the task ends completed and its id is appended.
SuccessResultCompletesTask ==
  (DriveOver /\ hist.task.gotSuccess /\ hist.task.resultsReduced = 1) =>
    /\ hist.failedAt = 0
    /\ DrivenStatus = "completed"
    /\ Len(completedTaskIds) = Len(hist.invoked)
    /\ completedTaskIds[Len(completedTaskIds)] = tasks[Driven]

\* C4: a fault of the stream iteration is suppressed (and the task succeeds)
\* exactly when a success result had been delivered; otherwise it fails the
\* task and is the error raised.
FaultSuppressedIffSuccess ==
  hist.task.fault # "none" =>
    /\ hist.task.fault = "suppressed" <=> hist.task.gotSuccess
    /\ hist.task.fault = "suppressed" => hist.failedAt = 0
    /\ hist.task.fault = "rethrown" => hist.failedAt = Driven /\ fatal = IteratorError

\* C5: after the first success result no message of the stream is reduced, and
\* at most one result message is reduced per task.
NothingReducedAfterSuccess ==
  /\ hist.task.resultsReduced <= 1
  /\ hist.task.afterSuccess = 0
  /\ hist.task.gotSuccess => pc # "streaming"

\* A success result was reduced and the task is over.
SuccessThenDone == DriveOver /\ hist.task.gotSuccess /\ pc = "loop"

\* C6: a stream that ends without a result message fails the task with
\* 'No result received from agent', whatever was delivered before.
SilentEndFails ==
  (hist.task.ended /\ hist.task.resultsReduced = 0) =>
    /\ hist.failedAt = Driven
    /\ DrivenStatus = "failed"
    /\ fatal.message = <<"No result received from agent">>
    /\ exitCode = "1"
    /\ Len(completedTaskIds) = Driven - 1

\* The stream ended silently after side-channel messages.
SilentEndAfterMessages == hist.task.ended /\ messageCount >= 1 /\ hist.failedAt # 0

\* C7: a result message with a subtype other than success raises an error
\* whose message names the subtype, and the task is marked failed.
FailureNamesSubtype ==
  hist.task.failedSubtype # Undefined =>
    /\ Includes(fatal.message, hist.task.failedSubtype)
    /\ DrivenStatus = "failed"

\* C8: the error raised for a message of type error carries, as fields, the
\* status code (as status and statusCode), the type and the cause that
\* message.error carries.
SdkErrorKeepsFields ==
  hist.task.errorSeen =>
    LET e == hist.task.sdkError
        code == IF e.status # Undefined THEN e.status ELSE e.statusCode
    IN /\ hist.failedAt = Driven
       /\ code # Undefined => fatal.status = code /\ fatal.statusCode = code
       /\ e.type # Undefined => fatal.type = e.type
       /\ e.cause # Undefined => fatal.cause = e.cause

\* An error message carrying all four fields was raised.
SdkErrorWithAllFields ==
  /\ hist.task.errorSeen
  /\ hist.task.sdkError.status # Undefined
  /\ hist.task.sdkError.statusCode # Undefined
  /\ hist.task.sdkError.type # Undefined
  /\ hist.task.sdkError.cause # Undefined

\* C9: filesChanged holds each path the Write/Edit hooks observed exactly once,
\* in the order of first observation.
OneRecordPerPath ==
  /\ filesChanged = hist.seen
  /\ NoDuplicates(filesChanged)

\* Two paths were observed and one of them more than once.
PathObservedAgain == hist.repeats /\ Len(filesChanged) = 2

\* C10: the script is never held by a notification's delivery and no
\* delivery outcome raises into it.
NotifierNeverBlocksOrRaises ==
  /\ ~suspended
  /\ fatal.name # "WebhookError"

\* The task's running update is still pending while its messages are reduced.
ReducingWhileDeliveryPending ==
  /\ pc = "streaming"
  /\ messageCount >= 1
  /\ inflight = <<"running">>
  /\ lastNotification.currentTask = <<"description of", tasks[idx]>>

\* What the pipeline holds and has done: every variable but the pending
\* deliveries.
Pipeline == <<env, tasks, pc, idx, taskStatuses, completedTaskIds, filesChanged,
              finalResult, messageCount, fatal, exitCode, lastNotification, commit,
              log, hist>>

\* A step in which a pending delivery ends and no notification is issued.
DeliveryEnds == lastNotification' = lastNotification /\ inflight' # inflight

\* C11: the end of a delivery, whatever its outcome, changes nothing of the
\* pipeline: not the invocations made, completedTaskIds, filesChanged, the
\* publication commands run or the exit code.
PipelineIgnoresDelivery == [][DeliveryEnds => UNCHANGED Pipeline]_vars

\* The publication is under way and every delivery so far has ended.
PublishingAfterDeliveries ==
  pc = "gitPush" /\ inflight = <<>> /\ lastNotification.status = "running"

\* C12: a notifier call starts exactly one POST attempt, and the end of an
\* attempt, whatever its outcome, takes it off the pending ones and starts or
\* queues nothing.
SingleAttemptPerCall ==
  [][/\ lastNotification' # lastNotification =>
          inflight' = StartFetch(inflight, lastNotification'.status)
     /\ lastNotification' = lastNotification =>
          \/ inflight' = inflight
          \/ \E k \in 1..Len(inflight) : inflight' = Without(inflight, k)]_vars

\* The attempt of a task's running update has ended while the task is driven.
AttemptEndedWhileStreaming ==
  /\ pc = "streaming"
  /\ inflight = <<>>
  /\ lastNotification.currentTask = <<"description of", tasks[idx]>>

\* C13 (under NotifierSpec): the transmitted body is the payload's members in their order followed
\* by the signature; the signature is the HMAC, keyed by the secret, of the
\* body without its signature member; and a payload that differs in one field
\* has another signature.
SignatureCoversBody ==
  lastNotification.status # "none" =>
    \A p \in {lastNotification} :
      \A body \in {RequestBody(p)} :
        \A sig \in {body[Len(body)][2][2]} :
          \A rest \in {SelectSeq(body, LAMBDA m : m[1] # "signature")} :
            /\ body[Len(body)][1] = "signature"
            /\ Len(rest) = Len(body) - 1
            /\ rest = JsonStringify(PayloadMembers(p))
            /\ Hmac(WebhookSecret, rest) = sig
            /\ \A st \in {"running", "completed", "error"} \ {p.status} :
                 Signature([p EXCEPT !.status = st]) # sig
            /\ Signature([p EXCEPT !.currentTask = Append(@, "x")]) # sig
            /\ Signature([p EXCEPT !.completedTasks = Append(@, "x")]) # sig
            /\ Signature([p EXCEPT !.filesChanged = Append(@, "x")]) # sig
            /\ Signature([p EXCEPT !.buildStatus =
                                     IF @ = Undefined THEN "success" ELSE Undefined]) # sig
            /\ Signature([p EXCEPT !.error =
                                     IF @ = Undefined THEN <<"x">> ELSE Undefined]) # sig

\* An error update was sent: its body has no buildStatus member.
ErrorUpdateSigned ==
  lastNotification.status = "error" /\ Len(RequestBody(lastNotification)) = 8

\* C14: a version-control command of the publication has run only if every
\* task completed, the build passed and both GITHUB_URL and GITHUB_TOKEN are
\* set; after a failed build none has run.
PublicationGated ==
  /\ hist.git # {} =>
       /\ completedTaskIds = tasks
       /\ hist.build = "passed"
       /\ {"GITHUB_URL", "GITHUB_TOKEN"} \subseteq env
  /\ hist.build = "failed" => hist.git = {} /\ hist.publication = "none"

\* Two tasks were completed and the publication pushed.
PushedAfterTwoTasks == "push" \in hist.git /\ Len(tasks) = 2

\* C15: when a command of the publication failed, the run has sent a completed
\* update with buildStatus success as its last one and does not exit with 1.
PublicationFailureDemoted ==
  hist.publication = "demoted" =>
    /\ pc \in {"returned", "exited"}
    /\ exitCode # "1"
    /\ fatal = NoError
    /\ lastNotification.status = "completed"
    /\ lastNotification.buildStatus = "success"

\* The commit failed, nothing was pushed, and the process ended with code 0.
CommitFailedExitZero ==
  /\ hist.publication = "demoted"
  /\ "commit" \in hist.git
  /\ "push" \notin hist.git
  /\ exitCode = "0"

\* C16: the exit code is 0 exactly when every task completed and the build
\* passed, whatever the publication did; any other run that ends, ends with 1.
ExitCodeFollowsTasksAndBuild ==
  /\ pc = "exited" <=> exitCode \in {"0", "1"}
  /\ exitCode = "0" => completedTaskIds = tasks /\ hist.build = "passed"
  /\ exitCode = "1" => ~(completedTaskIds = tasks /\ hist.build = "passed")
  /\ exitCode = "1" =>
       \/ ~(RequiredEnv \subseteq env)
       \/ hist.failedAt # 0
       \/ hist.build = "failed"

\* The publication was not configured and the process ended with code 0.
ExitZeroWithoutPublication ==
  exitCode = "0" /\ hist.git = {} /\ Len(tasks) = 2

\* C17: when the process exits with code 1 after an agent invocation was made,
\* an error update has been issued (the run ends on issuing one, so it is then
\* the latest update).
ErrorUpdateBeforeExit ==
  (exitCode = "1" /\ hist.invoked # <<>>) => lastNotification.status = "error"

\* C18: no hook lets a fault escape to the agent that invoked it.
HooksNeverReject == ~hist.task.escaped

TerminalUpdateIssued ==
  \/ hist.task.session = "ended"
  \/ hist.failedAt # 0
  \/ hist.build = "passed"

\* C20: once a completed or error update has been issued, no agent invocation
\* is started.
NoInvocationAfterTerminal ==
  [][TerminalUpdateIssued => hist'.invoked = hist.invoked]_vars

\* C21: a call of the SessionEnd hook issues a completed update whose
\* completedTasks is every task id of the run, whatever completedTaskIds holds,
\* and leaves completedTaskIds unchanged.
SessionEndReportsAllTasks ==
  [][SessionEndHook =>
       /\ lastNotification'.status = "completed"
       /\ lastNotification'.completedTasks = tasks
       /\ completedTaskIds' = completedTaskIds]_vars

\* C22: every update carries completedTaskIds and filesChanged as they are
\* when it is issued.
NotificationProjectsRunState ==
  [][lastNotification' # lastNotification =>
       /\ lastNotification'.completedTasks = completedTaskIds'
       /\ lastNotification'.filesChanged = filesChanged']_vars

GuardMessage ==
  <<"Cannot build: Only ${completedTaskIds.length} of ${tasks.length} tasks completed">>

\* C24: completedTaskIds is never longer than tasks; when the loop is left
\* normally it is as long as tasks, and the completion guard never throws.
CompletionGuardNeverFires ==
  /\ Len(completedTaskIds) <= Len(tasks)
  /\ (pc = "loop" /\ idx > Len(tasks)) => Len(completedTaskIds) = Len(tasks)
  /\ pc \in {"build", "built", "publish", "gitStatus", "gitPush", "returned"} =>
       Len(completedTaskIds) = Len(tasks)
  /\ fatal.message # GuardMessage

\* The loop was left after two tasks and the build is running.
LoopLeftAfterTwoTasks == pc = "build" /\ Len(tasks) = 2

\* C25: with a required variable missing the process fails at startup: no
\* update is issued, no agent invocation made and no subprocess run; a missing
\* GITHUB_URL or GITHUB_TOKEN fails nothing.
MissingConfigurationFailsFirst ==
  /\ ~(RequiredEnv \subseteq env) =>
       /\ pc \in {"start", "exited"}
       /\ pc = "exited" => exitCode = "1"
       /\ lastNotification = NoNotification
       /\ inflight = <<>>
       /\ hist = InitHist
  /\ fatal.message = <<"environment variable is required">> =>
       ~(RequiredEnv \subseteq env)
  /\ (RequiredEnv \subseteq env /\ pc # "start") => lastNotification # NoNotification

\* The process failed at startup for want of WEBHOOK_SECRET.
FailedWithoutSecret == pc = "exited" /\ "WEBHOOK_SECRET" \notin env

\* C26: no entry of the file list the commit message embeds holds the name of
\* a temporary file, whatever state the file was in when the publication began.
TempFilesOutOfCommitList ==
  \A k \in 1..Len(commit.actualFilesList), t \in 1..Len(tempFiles) :
    ~Contains(commit.actualFilesList[k], tempFiles[t])

\* The path of a line of git status --porcelain: the line without its two
\* status letters and the space after them.
PathOfLine(line) == SubSeq(line, 4, Len(line))

\* C27: each entry of the file list is the path of a line of the re-queried
\* status, unchanged, and the file count is the number of lines.
ListIsStatusPaths ==
  commit.fromStatus =>
    /\ commit.actualFilesChanged = Len(commit.statusLines)
    /\ \A k \in 1..Len(commit.actualFilesList) :
         \E j \in 1..Len(commit.statusLines) :
           commit.actualFilesList[k] = PathOfLine(commit.statusLines[j])

\* C28: at most two pushes are attempted: the current branch first, and main
\* second only after the first failed on another branch than main; the
\* publication is reported as pushed exactly when an attempt succeeded.
AtMostTwoPushes ==
  /\ Len(hist.pushes) <= 2
  /\ Len(hist.pushes) = 2 =>
       /\ ~hist.pushes[1].ok
       /\ hist.pushes[1].branch # "'main'"
       /\ hist.pushes[2].branch = "'main'"
  /\ hist.publication = "pushed" <=> \E k \in 1..Len(hist.pushes) : hist.pushes[k].ok
  /\ lastNotification.currentTask = <<"Code committed and pushed to GitHub">> <=>
       \E k \in 1..Len(hist.pushes) : hist.pushes[k].ok
  /\ "push" \in hist.git <=> Len(hist.pushes) >= 1
  /\ "push main" \in hist.git <=> Len(hist.pushes) = 2

\* The push of the current branch failed and the push of main succeeded.
FallbackPushSucceeded ==
  Len(hist.pushes) = 2 /\ hist.pushes[2].ok /\ hist.publication = "pushed"

\* C29: when the first status reports no change, nothing is staged or
\* committed, and the publication goes on to the branch and the push: it does
\* not end without a push attempt.
NoChangesSkipsCommitOnly ==
  hist.changes = "none" =>
    /\ hist.git \cap {"rm --cached", "add", "diff --cached", "commit"} = {}
    /\ commit = NoCommit
    /\ pc \in {"gitPush", "returned", "exited"}
    /\ pc # "gitPush" => {"branch", "push"} \subseteq hist.git /\ Len(hist.pushes) >= 1

\* Nothing was committed and the push went through.
PushedWithoutCommit == hist.changes = "none" /\ hist.publication = "pushed"

\* C30: no line written to the console holds the credential.
CredentialNeverLogged == \A line \in log : ~Includes(line, GithubToken)


\* C31: filesChanged changes only by one path appended at its end, and only in
\* a step of the agent's drive in which a tool hook observes a Write or Edit
\* call naming that path; the session hooks and every step outside the drive
\* (the sequencer, the build, the publication) leave it as it is.
FilesChangedGrowsByObservation ==
  [][/\ filesChanged' # filesChanged =>
          /\ InAgentDrive
          /\ \E p \in Paths :
               /\ filesChanged' = Append(filesChanged, p)
               /\ hist'.seen = Append(hist.seen, p)
     /\ hist'.task.session # hist.task.session => filesChanged' = filesChanged
     /\ pc # "streaming" => filesChanged' = filesChanged]_vars

\* Two recorded paths are still there when main() has returned.
FilesKeptThroughPublication ==
  Len(filesChanged) = 2 /\ pc = "returned" /\ hist.publication # "none"

\* C32: every call of the PreToolUse hook returns its directive (continue:
\* true, permissionDecision approve, the hook's only return statement): no call
\* ends otherwise, whatever the tool name or the input.
PreToolUseAlwaysApproves == [][PreToolUseHook => ~hist'.task.escaped]_vars

\* An update with the tool hooks' empty task text is issued in this step.
FileUpdateIssued ==
  lastNotification' # lastNotification /\ lastNotification'.currentTask = <<"">>

\* C36: a step issues an update of the tool hooks exactly when it records a
\* path; the path was not in filesChanged, and the update is a running one
\* carrying filesChanged with the new path (so the n-th update of the hooks
\* goes with the n-th entry).  A step of the drive that records nothing (a call
\* of another tool, a missing or empty path, a path already recorded) issues
\* no update.
FileUpdateIffNewPath ==
  [][/\ FileUpdateIssued <=> filesChanged' # filesChanged
     /\ filesChanged' # filesChanged =>
          /\ lastNotification'.status = "running"
          /\ lastNotification'.filesChanged = filesChanged'
          /\ \E p \in Paths :
               ~Includes(filesChanged, p) /\ filesChanged' = Append(filesChanged, p)
     /\ (hist'.seen = hist.seen /\ pc = "streaming" /\ pc' = "streaming"
         /\ hist'.task.session = hist.task.session) =>
          lastNotification' = lastNotification]_vars

\* The hooks' second update is the latest one issued.
SecondFileUpdateIssued ==
  lastNotification.currentTask = <<"">> /\ Len(lastNotification.filesChanged) = 2

\* C37: an update with buildStatus success is issued only after the build
\* command has passed.
BuildSuccessOnlyAfterBuild ==
  lastNotification.buildStatus = "success" => hist.build = "passed"

\* C38: once a completed update has been issued (the latest one, the one of
\* the SessionEnd hook of the drive, or the one after the build), no running
\* update is issued.
CompletedIsFinal ==
  [][(/\ \/ lastNotification.status = "completed"
         \/ hist.task.session = "ended"
         \/ hist.build = "passed"
      /\ lastNotification' # lastNotification) =>
       lastNotification'.status # "running"]_vars

\* C39: when the process has ended, every delivery attempt has ended before.
DeliveriesEndBeforeExit == pc = "exited" => inflight = <<>>


\* C35: the agent is invoked for a task in the step that issues the running
\* update with the task's description (the update first: it carries the ids
\* completed before), with every earlier task's id already appended; the id of
\* a task is appended only once its invocation has been made, and the 'Task
\* completed' running update issued with it carries the list with the id
\* appended; the loop goes to the next task only then.
EventOrderPerTask ==
  [][/\ hist'.invoked # hist.invoked =>
          /\ hist'.invoked = Append(hist.invoked, idx)
          /\ lastNotification' = Payload("running", <<"description of", tasks[idx]>>,
                                         completedTaskIds, filesChanged, Undefined, Undefined)
          /\ completedTaskIds' = completedTaskIds
          /\ Len(completedTaskIds) = idx - 1
     /\ completedTaskIds' # completedTaskIds =>
          /\ pc \in {"streaming", "closing"}
          /\ hist.invoked # <<>> /\ Driven = idx
          /\ completedTaskIds' = Append(completedTaskIds, tasks[idx])
          /\ lastNotification'.status = "running"
          /\ lastNotification'.currentTask = <<"Task completed: ", "${task.description}">>
          /\ lastNotification'.completedTasks = Append(completedTaskIds, tasks[idx])
          /\ hist'.invoked = hist.invoked
          /\ pc' = "loop" /\ idx' = idx + 1]_vars

\* The second task's 'Task completed' update is the latest one issued.
SecondTaskCompletedIssued ==
  /\ lastNotification.currentTask = <<"Task completed: ", "${task.description}">>
  /\ Len(lastNotification.completedTasks) = 2


\* C34: a run of the build command fails the run (exit code 1, no update
\* issued, nothing of the publication run) exactly when the command exits
\* non-zero, whatever its stderr, or exits zero with a stderr that is not empty
\* and holds neither 'warning' nor 'WARN'; every other run of the command
\* passes: 'Build successful' is issued and the script goes on.
BuildFailsExactlyOnErrors ==
  [][\A exitsZero \in BOOLEAN, stderr \in BuildStderrs :
       (pc = "build" /\ BuildRun(exitsZero, stderr)) =>
         IF \/ ~exitsZero
            \/ /\ stderr # <<>>
               /\ \A k \in 1..Len(stderr) : stderr[k] \notin {"warning", "WARN"}
           THEN /\ hist'.build = "failed"
                /\ pc' = "exited" /\ exitCode' = "1"
                /\ fatal'.name = "BuildError"
                /\ lastNotification' = lastNotification
                /\ hist'.git = {} /\ hist'.publication = "none"
           ELSE /\ hist'.build = "passed"
                /\ pc' = "built" /\ exitCode' = Undefined
                /\ lastNotification'.currentTask = <<"Build successful">>
                /\ lastNotification'.buildStatus = "success"]_vars

\* The build failed: the latest update is still the one sent before it.
BuildFailedAfterBuildingUpdate ==
  /\ hist.build = "failed"
  /\ exitCode = "1"
  /\ lastNotification.buildStatus = "building"


\* C33 (under DeliverySpec, where idx counts the calls): a call of the notifier
\* waits for no pending delivery: it leaves every pending one pending, adds its own after them and
\* returns, so that a delivery issued earlier can still be pending while a
\* later one is; and the end of a delivery takes any one of the pending ones
\* off, not the oldest only.
DeliveriesUncoordinated ==
  [][/\ idx' # idx =>
          /\ inflight' = Append(inflight, lastNotification'.status)
          /\ ~suspended'
     /\ idx' = idx =>
          \/ inflight' = inflight
          \/ \E k \in 1..Len(inflight) : inflight' = Without(inflight, k)]_vars

\* A running update and then a completed one were issued; the delivery of the
\* completed one has ended and the delivery of the running one is still pending.
LaterDeliveredFirst ==
  /\ pc = "deliveries"
  /\ idx = 3
  /\ lastNotification.status = "completed"
  /\ inflight = <<"running">>

\* C40: after any sequence of successful store actions on tasks, lists and
\* tags the in-memory tasks, lists and tags hold the records of the persistence
\* layer, so that loading all the data again brings nothing new.  (A failed
\* action changes neither side; the order of the arrays is left aside.)
MemoryEqualsPersistence ==
  pc = "store" =>
    /\ Elements(store.tasks) = store.db.tasks
    /\ Elements(store.lists) = store.db.lists
    /\ Elements(store.tags) = store.db.tags

=============================================================================
